---- MODULE Spec2Model ----
(***************************************************************************)
(* Kasboek Debutade web application: the category recommender              *)
(* (/api/recommend-category) of webapp.py.                                 *)
(*                                                                         *)
(* Text is a sequence of one-character strings, so that strip(), lower()   *)
(* and split() are computed character by character.  A score is the        *)
(* quotient len(intersection) / len(union) of two small naturals, kept as  *)
(* a reduced fraction [n, d]: two such quotients are the same float        *)
(* exactly when their reduced fractions are equal.                         *)
(***************************************************************************)
EXTENDS Integers, Sequences, FiniteSets, TLC

\* ---------------------------------------------------------------- bounds
MaxQueryLen == 3
MaxRows == 2
MaxCategories == 6
MaxLedgerRows == 1
MaxAdds == 2
MaxRecentRows == 11
MaxUndated == 2
MaxSettingsRequests == 2
MaxConcurrentSettings == 1

\* ------------------------------------------------------ program constants
TopN == 5
MinDescriptionLength == 3

\* ------------------------------------------------------------------ text
Alphabet == {"a", "B", " "}

IsSpace(c) == c = " "

LowerChar(c) ==
    CASE c = "A" -> "a"
      [] c = "B" -> "b"
      [] c = "N" -> "n"
      [] OTHER -> c

\* str.lower()
Lower(s) == [i \in 1..Len(s) |-> LowerChar(s[i])]

\* str.strip()
Strip(s) ==
    LET keep == {i \in 1..Len(s) : ~IsSpace(s[i])}
    IN  IF keep = {} THEN <<>>
        ELSE LET lo == CHOOSE i \in keep : \A j \in keep : i <= j
                 hi == CHOOSE i \in keep : \A j \in keep : j <= i
             IN  SubSeq(s, lo, hi)

\* set(text.split()): the maximal runs of non-whitespace characters
Tokens(s) ==
    LET starts == {i \in 1..Len(s) :
                     ~IsSpace(s[i]) /\ (i = 1 \/ IsSpace(s[i - 1]))}
        ends == {j \in 1..Len(s) :
                   ~IsSpace(s[j]) /\ (j = Len(s) \/ IsSpace(s[j + 1]))}
    IN  {SubSeq(s, i, CHOOSE j \in ends : j >= i /\ \A k \in ends : k >= i => j <= k) :
           i \in starts}

\* ----------------------------------------------------------------- cells
\* A cell value or JSON value: None, or a string.
NoneValue == [none |-> TRUE, v |-> <<>>]
Text(s) == [none |-> FALSE, v |-> s]
NoneCategory == [none |-> TRUE, v |-> ""]
Category(c) == [none |-> FALSE, v |-> c]

\* Python truthiness of a cell read by openpyxl (an empty cell is None)
Truthy(cell) == ~cell.none

\* str(value) of a description cell or of the JSON description
Str(cell) == IF cell.none THEN <<"N", "o", "n", "e">> ELSE cell.v

\* str(value) of a category cell
StrCategory(cell) == IF cell.none THEN "None" ELSE cell.v

\* ---------------------------------------------------------------- scores
RECURSIVE GCD(_, _)
GCD(a, b) == IF b = 0 THEN a ELSE GCD(b, a % b)

Quotient(n, d) == LET g == GCD(n, d) IN [n |-> n \div g, d |-> d \div g]
Zero == [n |-> 0, d |-> 1]

Greater(x, y) == x.n * y.d > y.n * x.d
GreaterEq(x, y) == x.n * y.d >= y.n * x.d

calculate_similarity_overlap(text1, text2) ==
    LET words1 == Tokens(text1)
        words2 == Tokens(text2)
    IN  IF words1 = {} \/ words2 = {} THEN Zero
        ELSE Quotient(Cardinality(words1 \cap words2), Cardinality(words2))

calculate_similarity(text1, text2) ==
    LET words1 == Tokens(text1)
        words2 == Tokens(text2)
    IN  IF words1 = {} \/ words2 = {} THEN Zero
        ELSE Quotient(Cardinality(words1 \cap words2),
                      Cardinality(words1 \cup words2))

\* ------------------------------------------------- the reference dataset
\* static/category_test_set.xlsx: absent, not loadable by openpyxl, or a
\* sheet.  A row of the sheet is the tuple iter_rows(values_only=True)
\* yields; Python index k is index k + 1 here.  openpyxl pads every row to
\* the sheet's width, so all rows of one sheet have the same length.
MissingFile == [kind |-> "missing", rows |-> <<>>]
CorruptFile == [kind |-> "corrupt", rows |-> <<>>]
Sheet(rows) == [kind |-> "ok", rows |-> rows]

Row(description, category) == <<NoneValue, NoneValue, description, category>>
NarrowRow(description) == <<NoneValue, NoneValue, description>>

CategoryNames ==
    <<"Algemeen", "Evenement", "Materiaal", "Training", "Overig",
      "Kantine", "Reizen", "Bank">>

DescriptionCells ==
    {NoneValue, Text(<<"a">>), Text(<<"B", " ", "a">>), Text(<<" ">>)}
CategoryCells == {NoneCategory, Category("Materiaal"), Category("Training")}
WideDescriptions == {Text(<<"a">>), Text(<<"B", " ", "a", " ", "a", "b">>)}

\* sheets of up to MaxRows arbitrary rows
SmallSheets ==
    UNION {{Sheet(rows) :
              rows \in [1..n -> {Row(d, c) : d \in DescriptionCells,
                                             c \in CategoryCells}]} :
           n \in 0..MaxRows}

\* sheets without a category column
NarrowSheets ==
    UNION {{Sheet(rows) :
              rows \in [1..n -> {NarrowRow(d) : d \in DescriptionCells}]} :
           n \in 1..MaxRows}

\* sheets of up to MaxCategories rows, one category each
WideSheets ==
    UNION {{Sheet([i \in 1..n |-> Row(f[i], Category(CategoryNames[i]))]) :
              f \in [1..n -> WideDescriptions]} :
           n \in 0..MaxCategories}

ReferenceFiles ==
    {MissingFile, CorruptFile} \cup SmallSheets \cup NarrowSheets \cup WideSheets

\* ----------------------------------------------------------- the request
\* The body of the POST request as request.get_json() sees it:
\*   "malformed": get_json() raises (invalid JSON, wrong content type);
\*   "falsy":     JSON null, false, 0, "", [] or {} (replaced by {});
\*   "nondict":   a non-empty JSON list, string or number (no .get);
\*   "nokey":     an object without "description";
\*   "value":     an object whose "description" is null or a string.
Body(kind, description) == [kind |-> kind, description |-> description]

Strings(n) == UNION {[1..k -> Alphabet] : k \in 0..n}

Bodies ==
    {Body(k, NoneValue) : k \in {"malformed", "falsy", "nondict", "nokey", "value"}}
    \cup {Body("value", Text(s)) : s \in Strings(MaxQueryLen)}

NoRequest == Body("none", NoneValue)

\* ------------------------------------------------------- recommend_category
\* The outcome of a block of code: it raised, or it produced a value.
Raised == [raised |-> TRUE, value |-> <<>>]
Value(v) == [raised |-> FALSE, value |-> v]

\* str(data.get('description', '')).strip().lower()
Description(body) ==
    IF body.kind = "value" THEN Lower(Strip(Str(body.description)))
    ELSE <<>>

TooShort_two(description) == description = <<>> \/ Len(description) < 2

\* not description or len(description) < 3
TooShort(description) ==
    description = <<>> \/ Len(description) < MinDescriptionLength

RECURSIVE training_data_unguarded(_)
training_data_unguarded(rows) ==
    IF rows = <<>> THEN Value(<<>>)
    ELSE LET row == Head(rows)
             rest == training_data_unguarded(Tail(rows))
         IN  IF Len(row) < 4 THEN Raised
             ELSE IF rest.raised THEN Raised
             ELSE Value(<<[description |-> Lower(Str(row[3])),
                           category |-> StrCategory(row[4])]>>
                        \o rest.value)

\* The loop over sheet.iter_rows(min_row=2, values_only=True): row[k] raises
\* IndexError when the row has no index k, and "row[2] and row[3]" does not
\* evaluate row[3] when row[2] is falsy.
RECURSIVE training_data(_)
training_data(rows) ==
    IF rows = <<>> THEN Value(<<>>)
    ELSE LET row == Head(rows)
             rest == training_data(Tail(rows))
         IN  IF Len(row) < 3 THEN Raised
             ELSE IF ~Truthy(row[3]) THEN rest
             ELSE IF Len(row) < 4 THEN Raised
             ELSE IF ~Truthy(row[4]) THEN rest
             ELSE IF rest.raised THEN Raised
             ELSE Value(<<[description |-> Lower(Str(row[3])),
                           category |-> StrCategory(row[4])]>>
                        \o rest.value)

Match(description, item) ==
    [category |-> item.category,
     score |-> calculate_similarity(description, item.description),
     example |-> item.description]

find_matches_nonnegative(description, training) ==
    SelectSeq([i \in 1..Len(training) |-> Match(description, training[i])],
              LAMBDA m : GreaterEq(m.score, Zero))

\* matches: one per training item with score > 0, in sheet order
find_matches(description, training) ==
    SelectSeq([i \in 1..Len(training) |-> Match(description, training[i])],
              LAMBDA m : Greater(m.score, Zero))

\* list.sort / sorted with key = score, reverse = True: stable, so matches
\* of equal score keep their order
insert_ascending(sorted, m) ==
    LET before == {i \in 1..Len(sorted) : GreaterEq(m.score, sorted[i].score)}
        k == Cardinality(before)
    IN  SubSeq(sorted, 1, k) \o <<m>> \o SubSeq(sorted, k + 1, Len(sorted))

insert_by_score(sorted, m) ==
    LET before == {i \in 1..Len(sorted) : GreaterEq(sorted[i].score, m.score)}
        k == Cardinality(before)
    IN  SubSeq(sorted, 1, k) \o <<m>> \o SubSeq(sorted, k + 1, Len(sorted))

RECURSIVE sort_by_score(_)
sort_by_score(ms) ==
    IF ms = <<>> THEN <<>>
    ELSE insert_by_score(sort_by_score(SubSeq(ms, 1, Len(ms) - 1)), ms[Len(ms)])

\* seen_categories as the sequence of its values, in insertion order
see_lowest(seen, match) ==
    LET at == {i \in 1..Len(seen) : seen[i].category = match.category}
    IN  IF at = {} THEN Append(seen, match)
        ELSE LET i == CHOOSE j \in at : TRUE
             IN  IF Greater(seen[i].score, match.score)
                 THEN [seen EXCEPT ![i] = match]
                 ELSE seen

see(seen, match) ==
    LET at == {i \in 1..Len(seen) : seen[i].category = match.category}
    IN  IF at = {} THEN Append(seen, match)
        ELSE LET i == CHOOSE j \in at : TRUE
             IN  IF Greater(match.score, seen[i].score)
                 THEN [seen EXCEPT ![i] = match]
                 ELSE seen

RECURSIVE seen_categories(_)
seen_categories(matches) ==
    IF matches = <<>> THEN <<>>
    ELSE see(seen_categories(SubSeq(matches, 1, Len(matches) - 1)),
             matches[Len(matches)])

top_all(sorted) == sorted

top_last(sorted) ==
    SubSeq(sorted, IF Len(sorted) > TopN THEN Len(sorted) - TopN + 1 ELSE 1,
           Len(sorted))

\* [:5]
top(sorted) == SubSeq(sorted, 1, IF Len(sorted) < TopN THEN Len(sorted) ELSE TopN)

\* The code after the training data is collected
recommendations(description, training) ==
    LET matches == sort_by_score(find_matches(description, training))
    IN  top(sort_by_score(seen_categories(matches)))

\* The body of the try block: the recommendations and whether the code
\* got as far as the reference file
Outcome(result, consulted) == [result |-> result, consulted |-> consulted]

try_block(body, file) ==
    IF body.kind \in {"malformed", "nondict"} THEN Outcome(Raised, FALSE)
    ELSE LET description == Description(body)
         IN  IF TooShort(description) THEN Outcome(Value(<<>>), FALSE)
             ELSE IF file.kind = "missing" THEN Outcome(Value(<<>>), TRUE)
             ELSE IF file.kind = "corrupt" THEN Outcome(Raised, TRUE)
             ELSE LET training == training_data(file.rows)
                  IN  IF training.raised THEN Outcome(Raised, TRUE)
                      ELSE Outcome(Value(recommendations(description,
                                                         training.value)),
                                   TRUE)

Response(status, recs, consulted) ==
    [status |-> status, recommendations |-> recs, consulted |-> consulted]

handle_unguarded(body, file) ==
    LET out == try_block(body, file)
    IN  IF out.result.raised THEN Response(500, <<>>, out.consulted)
        ELSE Response(200, out.result.value, out.consulted)

\* try: ... except Exception: return jsonify({'recommendations': []})
handle(body, file) ==
    LET out == try_block(body, file)
    IN  IF out.result.raised THEN Response(200, <<>>, out.consulted)
        ELSE Response(200, out.result.value, out.consulted)

\* ------------------------------------------------------------ the workbook
\* The Excel file at EXCEL_FILE_PATH, as far as the configured sheet goes.
\* A row holds the columns the code reads back: A (Datum), I (Mededelingen),
\* F (Af Bij), G (Bedrag) and L (Tag).  Text cells are strings, '' for an
\* empty cell; an amount is a number of thousandths of a euro, or no number.
Amount(v) == [num |-> TRUE, v |-> v]
NoAmount == [num |-> FALSE, v |-> 0]

LedgerRow(datum, mededelingen, af_bij, bedrag, tag) ==
    [datum |-> datum, mededelingen |-> mededelingen, af_bij |-> af_bij,
     bedrag |-> bedrag, tag |-> tag]

EmptyRow == LedgerRow("", "", "", NoAmount, "")
HeaderRow == LedgerRow("Datum", "Mededelingen", "Af Bij", NoAmount, "Tag")

\* exists: os.path.exists; loadable: load_workbook does not raise;
\* hasSheet: EXCEL_SHEET_NAME in wb.sheetnames; rows: the sheet from row 1
Book(exists, loadable, hasSheet, rows) ==
    [exists |-> exists, loadable |-> loadable, hasSheet |-> hasSheet,
     rows |-> rows]

NoBook == Book(FALSE, FALSE, FALSE, <<>>)
CorruptBook == Book(TRUE, FALSE, FALSE, <<>>)
BookWithoutSheet == Book(TRUE, TRUE, FALSE, <<>>)
BookOf(rows) == Book(TRUE, TRUE, TRUE, rows)

\* round(total, 2) of a total in thousandths: to the nearest cent.  The
\* amounts of the model are even numbers of thousandths, so no total lies
\* halfway between two cents.
Round2(x) ==
    IF x >= 0 THEN ((x + 5) \div 10) * 10
    ELSE -((((-x) + 5) \div 10) * 10)

RECURSIVE total_of(_)
total_of(rows) ==
    IF rows = <<>> THEN 0
    ELSE LET row == Head(rows)
             rest == total_of(Tail(rows))
         IN  IF ~row.bedrag.num THEN rest
             ELSE IF row.af_bij = "Af" THEN rest - row.bedrag.v
             ELSE IF row.af_bij = "Bij" THEN rest + row.bedrag.v
             ELSE rest

RECURSIVE total_unsigned(_)
total_unsigned(rows) ==
    IF rows = <<>> THEN 0
    ELSE LET row == Head(rows)
             rest == total_unsigned(Tail(rows))
         IN  IF ~row.bedrag.num THEN rest
             ELSE IF row.af_bij \in {"Af", "Bij"} THEN rest + row.bedrag.v
             ELSE rest

calculate_total_amount_unsigned(book) ==
    IF ~book.exists THEN 0
    ELSE IF ~book.loadable THEN 0
    ELSE IF book.hasSheet
         THEN Round2(total_unsigned(SubSeq(book.rows, 2, Len(book.rows))))
         ELSE 0

\* calculate_total_amount(): rows from row 2 on, columns F and G
calculate_total_amount(book) ==
    IF ~book.exists THEN 0
    ELSE IF ~book.loadable THEN 0
    ELSE IF book.hasSheet
         THEN Round2(total_of(SubSeq(book.rows, 2, Len(book.rows))))
         ELSE 0

\* ------------------------------------------------------- add_transaction
\* A form field: absent from the form, or a string.
Missing == [present |-> FALSE, v |-> ""]
Field(s) == [present |-> TRUE, v |-> s]

\* request.form.get(name, default)
FormGet(field, default) == IF field.present THEN field.v ELSE default

Form(datum, mededelingen, af_bij, bedrag) ==
    [datum |-> datum, mededelingen |-> mededelingen, af_bij |-> af_bij,
     bedrag |-> bedrag]

DatumFields ==
    {Missing, Field(""), Field("2026-01-03"), Field("03-01-2026")}
MededelingenFields == {Missing, Field(" "), Field("koffie")}
AfBijFields == {Missing, Field("Af"), Field("Bij")}
BedragFields ==
    {Missing, Field(" "), Field("12,50"), Field("0.004"), Field("abc")}

Forms ==
    {Form(d, m, a, b) : d \in DatumFields, m \in MededelingenFields,
                        a \in AfBijFields, b \in BedragFields}

\* str.strip() on the strings of the forms
StripText(s) == IF s = " " THEN "" ELSE s

\* float(text.replace(',', '.')): the amount in thousandths, or ValueError
ParseAmount(s) ==
    CASE s = "12,50" -> Value(12500)
      [] s = "0.004" -> Value(4)
      [] OTHER -> Raised

\* datetime.strptime(text, '%Y-%m-%d')
ParseDatum(s) == IF s = "2026-01-03" THEN Value(s) ELSE Raised

\* sheet.insert_rows(2) and the cells written to row 2; a sheet without
\* rows gets an empty row 1
insert_at_end(rows, row) ==
    IF rows = <<>> THEN <<EmptyRow, row>> ELSE Append(rows, row)

insert_at_2(rows, row) ==
    IF rows = <<>> THEN <<EmptyRow, row>>
    ELSE <<Head(rows), row>> \o Tail(rows)

\* row_data
row_data(form, datum, bedrag) ==
    LedgerRow(datum, FormGet(form.mededelingen, ""),
              FormGet(form.af_bij, ""), Amount(bedrag), "")

\* the workbook as the request saves it: the loaded workbook, with the
\* sheet created when absent, and the new row
with_row(book, row) ==
    BookOf(insert_at_2(IF book.hasSheet THEN book.rows ELSE <<>>, row))

AddResponse(status, success, new_total) ==
    [status |-> status, success |-> success, new_total |-> new_total]

Added(resp, book) == [response |-> resp, book |-> book]

Rejected(book) == Added(AddResponse(400, FALSE, 0), book)
Failed(book) == Added(AddResponse(500, FALSE, 0), book)

\* add_transaction(): pathSet is "EXCEL_FILE_PATH is not blank", saveOk is
\* whether wb.save succeeds.  form.get('bedrag') has no default, so that
\* data['bedrag'].strip() raises AttributeError when the field is absent;
\* the except of line 443 answers 500.
add_transaction_result(pathSet, book, form, saveOk) ==
    IF ~pathSet THEN Rejected(book)
    ELSE IF ~book.exists THEN Rejected(book)
    ELSE IF FormGet(form.datum, "") = "" THEN Rejected(book)
    ELSE IF StripText(FormGet(form.mededelingen, "")) = "" THEN Rejected(book)
    ELSE IF ~form.bedrag.present THEN Failed(book)
    ELSE IF StripText(form.bedrag.v) = "" THEN Rejected(book)
    ELSE IF ParseAmount(form.bedrag.v).raised THEN Rejected(book)
    ELSE IF ParseDatum(form.datum.v).raised THEN Rejected(book)
    ELSE IF ~book.loadable THEN Failed(book)
    ELSE IF ~saveOk THEN Failed(book)
    ELSE LET saved == with_row(book, row_data(form, ParseDatum(form.datum.v).value,
                                              ParseAmount(form.bedrag.v).value))
         IN  Added(AddResponse(200, TRUE, calculate_total_amount(saved)), saved)

\* get_all_transactions / get_recent_transactions: one record per row
\* with a date; f"{x:.2f}" gives the amount to the cent
RecentLimit == 10

transaction_of(row) ==
    [datum |-> row.datum, mededelingen |-> row.mededelingen,
     af_bij |-> row.af_bij,
     bedrag |-> IF row.bedrag.num THEN Round2(row.bedrag.v) ELSE 0,
     tag |-> row.tag]

transactions_of(rows) ==
    LET dated == SelectSeq(rows, LAMBDA row : row.datum # "")
    IN  [i \in 1..Len(dated) |-> transaction_of(dated[i])]

\* row[11] raises IndexError on a row of fewer than 12 cells: the except
\* clause returns [] as soon as a row with a date is read
RequiredColumns == 12

read_transactions(rows, columns) ==
    IF columns < RequiredColumns /\ \E i \in 1..Len(rows) : rows[i].datum # ""
    THEN <<>>
    ELSE transactions_of(rows)

get_all_transactions(book, columns) ==
    IF ~book.exists \/ ~book.loadable \/ ~book.hasSheet THEN <<>>
    ELSE read_transactions(SubSeq(book.rows, 2, Len(book.rows)), columns)

Min(a, b) == IF a < b THEN a ELSE b
Max(a, b) == IF a < b THEN b ELSE a

get_recent_transactions_short(book, columns, limit) ==
    IF ~book.exists \/ ~book.loadable \/ ~book.hasSheet THEN <<>>
    ELSE read_transactions(SubSeq(book.rows, 2,
                                  Min(limit, Max(1, Len(book.rows)))),
                           columns)

\* iter_rows(min_row=2, max_row=min(limit+1, sheet.max_row)); max_row of
\* a sheet without rows is 1
get_recent_transactions(book, columns, limit) ==
    IF ~book.exists \/ ~book.loadable \/ ~book.hasSheet THEN <<>>
    ELSE read_transactions(SubSeq(book.rows, 2,
                                  Min(limit + 1, Max(1, Len(book.rows)))),
                           columns)

\* ------------------------------------------------------------- settings
\* A path is a directory and a file name: os.path.join, dirname, basename.
Path(dir, name) == [dir |-> dir, name |-> name]
EmptyPath == Path("", "")
join(dir, name) == Path(dir, name)
dirname(path) == path.dir
basename(path) == path.name

\* name.lower().endswith('.xlsx')
EndsWithXlsx(name) == name \in {"kas.xlsx", "nieuw.xlsx", "KAS.XLSX"}

\* werkzeug secure_filename on the uploaded names
secure_filename(name) == IF name = "../kas.xlsx" THEN "kas.xlsx" ELSE name

\* The first row of a sheet, one string per cell ('' for an empty cell).
REQUIRED_HEADERS ==
    <<"Datum", "Naam / Omschrijving", "Rekening", "Tegenrekening", "Code",
      "Af Bij", "Bedrag (EUR)", "Mutatiesoort", "Mededelingen",
      "Saldo na mutatie", "", "Tag">>
PaddedHeaders == [REQUIRED_HEADERS EXCEPT ![1] = " Datum "]
ShortHeaders == SubSeq(REQUIRED_HEADERS, 1, 11)
LongHeaders == REQUIRED_HEADERS \o <<"Extra">>
\* the headers add_transaction gives a workbook it creates (line 398)
CreatedHeaders ==
    <<"Datum", "Naam/Omschrijving", "Rekening", "Tegen Rekening", "Code",
      "Af Bij", "Bedrag", "Mutatiesoort", "Mededelingen",
      "Saldo na mutatie", "", "Tag">>

StripCell(c) == IF c = " Datum " THEN "Datum" ELSE c

SheetNames == {"Transacties", "Blad1"}
NoSheet == [present |-> FALSE, header |-> <<>>]
SheetWith(header) == [present |-> TRUE, header |-> header]

\* A file: absent, not loadable, or a workbook with its sheets and the
\* name of its active sheet.
AbsentFile == [kind |-> "absent", sheets |-> [n \in SheetNames |-> NoSheet],
               active |-> "Transacties"]
BrokenFile == [AbsentFile EXCEPT !.kind = "corrupt"]
Workbook(configured, other, active) ==
    [kind |-> "xlsx",
     sheets |-> [n \in SheetNames |->
                   IF n = "Transacties" THEN configured ELSE other],
     active |-> active]

GoodFile == Workbook(SheetWith(REQUIRED_HEADERS), NoSheet, "Transacties")
PaddedFile == Workbook(SheetWith(PaddedHeaders), SheetWith(ShortHeaders), "Transacties")
LongFile == Workbook(SheetWith(LongHeaders), NoSheet, "Transacties")
BadFile == Workbook(SheetWith(CreatedHeaders), NoSheet, "Transacties")
ShortFile == Workbook(SheetWith(ShortHeaders), NoSheet, "Transacties")
OtherSheetFile == Workbook(NoSheet, SheetWith(REQUIRED_HEADERS), "Blad1")

\* the comparison of validate_excel_headers and set_excel_sheet_name:
\* cells stripped, the row padded with '' and cut to the required length
headers_match(header, required) ==
    LET n == Len(required)
        normalized == [i \in 1..n |->
                         IF i <= Len(header) THEN StripCell(header[i]) ELSE ""]
    IN  normalized = [i \in 1..n |-> StripCell(required[i])]

validate_excel_headers(file, sheetName) ==
    IF file.kind # "xlsx" THEN FALSE
    ELSE LET sheet == IF file.sheets[sheetName].present
                      THEN file.sheets[sheetName]
                      ELSE file.sheets[file.active]
         IN  headers_match(sheet.header, REQUIRED_HEADERS)

\* The globals of the running application ...
Settings(path, backup, log, level, sheet) ==
    [path |-> path, name |-> basename(path), dir |-> dirname(path),
     backup |-> backup, log |-> log, level |-> level, sheet |-> sheet]

\* ... and the config dictionary, in memory and in config.json
Config(path, backup, log, level, sheet) ==
    [excel_file_path |-> path, backup_directory |-> backup,
     log_directory |-> log, log_level |-> level, excel_sheet_name |-> sheet]

\* lines 135-142
settings_of(config) ==
    Settings(config.excel_file_path, config.backup_directory,
             config.log_directory, config.log_level, config.excel_sheet_name)

App(settings, config, configFile, fs) ==
    [settings |-> settings, config |-> config, configFile |-> configFile,
     fs |-> fs]

Answer(status, success) == [status |-> status, success |-> success]
Result(app, answer) == [app |-> app, answer |-> answer]

\* save_config(config): ok is whether config.json can be written
save_config(app, ok) ==
    [app EXCEPT !.configFile = IF ok THEN app.config ELSE @]

\* "if not save_config(config): return ..., 500", then the success answer
saved(app, ok) ==
    IF ok THEN Result(save_config(app, ok), Answer(200, TRUE))
    ELSE Result(save_config(app, ok), Answer(500, FALSE))

\* The JSON body of a settings request: get_json() or .get() raises, or
\* the value of the field as str(...).strip() leaves it ('' when absent)
Input(v) == [json |-> TRUE, v |-> v]
BadJson(v) == [json |-> FALSE, v |-> v]

Unchanged(app, status) == Result(app, Answer(status, FALSE))

Dirs == {"data", "alt"}
XlsxNames == {"kas.xlsx", "nieuw.xlsx"}
Paths == {Path(d, n) : d \in Dirs, n \in XlsxNames}

\* os.path.exists and the file read at a path
FileAt(fs, path) == IF path \in DOMAIN fs THEN fs[path] ELSE AbsentFile
exists(fs, path) == FileAt(fs, path).kind # "absent"

\* f"{new_name}.xlsx"
WithXlsx(name) == IF name = "kas" THEN "kas.xlsx" ELSE "nieuw.xlsx"

\* update_excel_file()
update_excel_file(app, input, ok) ==
    IF ~input.json THEN Unchanged(app, 500)
    ELSE IF input.v = "" THEN Unchanged(app, 400)
    ELSE LET new_name == IF EndsWithXlsx(input.v) THEN input.v
                         ELSE WithXlsx(input.v)
             path == join(app.settings.dir, new_name)
         IN  saved([app EXCEPT !.settings.name = new_name,
                               !.settings.path = path,
                               !.config.excel_file_path = path], ok)

set_excel_file_path_unvalidated(app, input, ok) ==
    IF ~input.json THEN Unchanged(app, 500)
    ELSE IF input.v = EmptyPath THEN Unchanged(app, 400)
    ELSE IF ~EndsWithXlsx(basename(input.v)) THEN Unchanged(app, 400)
    ELSE IF ~exists(app.fs, input.v) THEN Unchanged(app, 400)
    ELSE saved([app EXCEPT !.settings.path = input.v,
                           !.settings.name = basename(input.v),
                           !.settings.dir = dirname(input.v),
                           !.config.excel_file_path = input.v], ok)

\* set_excel_file_path()
set_excel_file_path(app, input, ok) ==
    IF ~input.json THEN Unchanged(app, 500)
    ELSE IF input.v = EmptyPath THEN Unchanged(app, 400)
    ELSE IF ~EndsWithXlsx(basename(input.v)) THEN Unchanged(app, 400)
    ELSE IF ~exists(app.fs, input.v) THEN Unchanged(app, 400)
    ELSE IF ~validate_excel_headers(FileAt(app.fs, input.v), app.settings.sheet)
         THEN Unchanged(app, 400)
    ELSE saved([app EXCEPT !.settings.path = input.v,
                           !.settings.name = basename(input.v),
                           !.settings.dir = dirname(input.v),
                           !.config.excel_file_path = input.v], ok)

\* The multipart body of an upload: no 'excel_file' part, or a file name
\* and the file's content
Upload(hasFile, filename, content) ==
    [hasFile |-> hasFile, filename |-> filename, content |-> content]

\* upload_excel_file(): the file is saved under its own name in
\* EXCEL_FILE_DIRECTORY before it is validated, and removed when the
\* validation fails
upload_excel_file(app, upload, ok) ==
    IF ~upload.hasFile THEN Unchanged(app, 400)
    ELSE IF upload.filename = "" THEN Unchanged(app, 400)
    ELSE LET filename == secure_filename(upload.filename)
             save_path == join(app.settings.dir, filename)
         IN  IF ~EndsWithXlsx(filename) THEN Unchanged(app, 400)
             ELSE IF ~validate_excel_headers(upload.content, app.settings.sheet)
                  THEN Unchanged([app EXCEPT !.fs[save_path] = AbsentFile], 400)
             ELSE saved([app EXCEPT !.fs[save_path] = upload.content,
                                    !.settings.name = filename,
                                    !.settings.path = save_path,
                                    !.config.excel_file_path = save_path], ok)

\* set_backup_directory()
set_backup_directory(app, input, ok) ==
    IF ~input.json THEN Unchanged(app, 500)
    ELSE IF input.v = "" THEN Unchanged(app, 400)
    ELSE saved([app EXCEPT !.settings.backup = input.v,
                           !.config.backup_directory = input.v], ok)

\* set_log_directory()
set_log_directory(app, input, ok) ==
    IF ~input.json THEN Unchanged(app, 500)
    ELSE IF input.v = "" THEN Unchanged(app, 400)
    ELSE saved([app EXCEPT !.settings.log = input.v,
                           !.config.log_directory = input.v], ok)

\* str.upper() on the log levels of the requests
Upper(s) == IF s = "debug" THEN "DEBUG" ELSE s
valid_levels == {"DEBUG", "INFO", "WARNING", "ERROR", "CRITICAL"}

\* set_log_level()
set_log_level(app, input, ok) ==
    IF ~input.json THEN Unchanged(app, 500)
    ELSE LET new_level == Upper(input.v)
         IN  IF new_level \notin valid_levels THEN Unchanged(app, 400)
             ELSE saved([app EXCEPT !.settings.level = new_level,
                                    !.config.log_level = new_level], ok)

\* set_excel_sheet_name(): when load_workbook raises, "except jsonify"
\* names no exception class, which raises TypeError out of the inner try;
\* the outer except answers 500
set_excel_sheet_name(app, input, ok) ==
    IF ~input.json THEN Unchanged(app, 500)
    ELSE IF input.v = "" THEN Unchanged(app, 400)
    ELSE IF ~exists(app.fs, app.settings.path) THEN Unchanged(app, 400)
    ELSE LET file == FileAt(app.fs, app.settings.path)
         IN  IF file.kind # "xlsx" THEN Unchanged(app, 500)
             ELSE IF input.v \notin SheetNames THEN Unchanged(app, 400)
             ELSE IF ~file.sheets[input.v].present THEN Unchanged(app, 400)
             ELSE IF ~headers_match(file.sheets[input.v].header, REQUIRED_HEADERS)
                  THEN Unchanged(app, 400)
             ELSE saved([app EXCEPT !.settings.sheet = input.v,
                                    !.config.excel_sheet_name = input.v], ok)

\* ------------------------------------------------------------------ state
VARIABLES
    refFile,        \* static/category_test_set.xlsx
    request,        \* the body of the last recommend-category request
    response,       \* the response to it
    ledger,         \* the workbook at EXCEL_FILE_PATH
    pathSet,        \* EXCEL_FILE_PATH is not blank
    addForm,        \* the form of the last add_transaction request
    addResponse,    \* the response to it
    ledger0,        \* the workbook before the first request
    inserted,       \* the rows written by the successful requests, in order
    columns,        \* the number of columns of the configured sheet
    recent,         \* the answer of the last /get_transactions request
    allTransactions, \* the answer of the last /api/all_transactions request
    running,        \* the globals, the config dictionary, config.json, the files
    settingsRequest, \* the last settings request: its handler and its input
    answer,         \* the answer to it
    requests,       \* the number of settings requests made
    pc,             \* where each request being served concurrently stands
    recLocal,       \* the locals of the recommend-category requests
    addLocal,       \* the locals of the add_transaction requests
    saveOrder       \* the add_transaction requests that saved, in order

recommendVars == <<refFile, request, response>>
ledgerVars == <<ledger, pathSet, addForm, addResponse, ledger0, inserted>>
recentVars == <<columns, recent, allTransactions>>
settingsVars == <<running, settingsRequest, answer, requests>>
threadVars == <<pc, recLocal, addLocal, saveOrder>>
vars == <<recommendVars, ledgerVars, recentVars, settingsVars, threadVars>>

NoResponse == Response(0, <<>>, FALSE)
NoAddResponse == AddResponse(0, FALSE, 0)
NoForm == Form(Missing, Missing, Missing, Missing)

\* the variables of a part of the application no request is made to
RecommendIdle ==
    /\ refFile = MissingFile
    /\ request = NoRequest
    /\ response = NoResponse

LedgerIdle ==
    /\ ledger = NoBook
    /\ pathSet = FALSE
    /\ addForm = NoForm
    /\ addResponse = NoAddResponse
    /\ ledger0 = NoBook
    /\ inserted = <<>>

\* the answer of a request for transactions, or no request yet
Transactions(list) == [asked |-> TRUE, transactions |-> list]
NotAsked == [asked |-> FALSE, transactions |-> <<>>]

RecentIdle ==
    /\ columns = RequiredColumns
    /\ recent = NotAsked
    /\ allTransactions = NotAsked

\* config.json as the application finds it when it starts
StartConfig == Config(Path("data", "kas.xlsx"), "backup", "logs", "INFO",
                      "Transacties")

\* the files of the two directories
Files(active, altKas, altNieuw) ==
    [p \in Paths |->
        CASE p = Path("data", "kas.xlsx") -> active
          [] p = Path("alt", "kas.xlsx") -> altKas
          [] p = Path("alt", "nieuw.xlsx") -> altNieuw
          [] OTHER -> AbsentFile]

\* lines 121-142: the globals are read from the configuration loaded
Started(fs) == App(settings_of(StartConfig), StartConfig, StartConfig, fs)

\* a settings request: its handler, and its JSON body (a text or a path)
\* or its upload
NoUpload == [hasFile |-> FALSE, filename |-> "", content |-> AbsentFile]
SettingsRequest(handler, json, text, path, upload) ==
    [handler |-> handler, json |-> json, text |-> text, path |-> path,
     upload |-> upload]
TextRequest(handler, input) ==
    SettingsRequest(handler, input.json, input.v, EmptyPath, NoUpload)
PathRequest(handler, input) ==
    SettingsRequest(handler, input.json, "", input.v, NoUpload)
UploadRequest(handler, upload) ==
    SettingsRequest(handler, FALSE, "", EmptyPath, upload)
NoSettingsRequest == TextRequest("none", BadJson(""))
NoAnswer == Answer(0, FALSE)

SettingsIdle ==
    /\ running = Started(Files(AbsentFile, AbsentFile, AbsentFile))
    /\ settingsRequest = NoSettingsRequest
    /\ answer = NoAnswer
    /\ requests = 0

\* The requests the threaded development server (app.run, line 946)
\* serves at the same time: two to /api/recommend-category and two to
\* /add_transaction.
RecThreads == {"r1", "r2"}
AddThreads == {"a1", "a2"}
Threads == RecThreads \cup AddThreads

\* saves: the number of saves made when the request arrived; overlapped:
\* whether a save was made while the request was served
RecLocal(body, resp, saves, overlapped) ==
    [body |-> body, response |-> resp, saves |-> saves,
     overlapped |-> overlapped]
AddLocal(form, loaded, resp) ==
    [form |-> form, loaded |-> loaded, response |-> resp]

ThreadsIdle ==
    /\ pc = [t \in Threads |-> "idle"]
    /\ recLocal = [t \in RecThreads |->
                     RecLocal(NoRequest, NoResponse, 0, FALSE)]
    /\ addLocal = [t \in AddThreads |-> AddLocal(NoForm, NoBook, NoAddResponse)]
    /\ saveOrder = <<>>

Init ==
    /\ refFile \in ReferenceFiles
    /\ request = NoRequest
    /\ response = NoResponse
    /\ LedgerIdle
    /\ RecentIdle
    /\ SettingsIdle
    /\ ThreadsIdle

\* POST /api/recommend-category.  A behaviour is one request against one
\* reference file: the handler keeps nothing from one request to the next.
recommend_category ==
    \E body \in Bodies :
        /\ request = NoRequest
        /\ request' = body
        /\ response' = handle(body, refFile)
        /\ UNCHANGED refFile
        /\ UNCHANGED <<ledgerVars, recentVars, settingsVars, threadVars>>

Next == recommend_category

Spec == Init /\ [][Next]_vars

\* Requests to /add_transaction, one after the other, against a workbook
\* the user supplied.
LedgerRows ==
    {LedgerRow("2026-01-02", "huur", "Af", Amount(12500), "Vast"),
     LedgerRow("2026-01-01", "gift", "Bij", Amount(4), ""),
     LedgerRow("2026-01-01", "memo", "Bij", NoAmount, "")}

LedgerBooks ==
    {NoBook, CorruptBook, BookWithoutSheet}
    \cup {BookOf(<<HeaderRow>> \o rows) :
            rows \in UNION {[1..n -> LedgerRows] : n \in 0..MaxLedgerRows}}

LedgerInit ==
    /\ RecommendIdle
    /\ ledger \in LedgerBooks
    /\ pathSet \in BOOLEAN
    /\ addForm = NoForm
    /\ addResponse = NoAddResponse
    /\ ledger0 = ledger
    /\ inserted = <<>>
    /\ RecentIdle
    /\ SettingsIdle
    /\ ThreadsIdle

\* POST /add_transaction; saveOk is whether wb.save() succeeds.  A request
\* that fails leaves the workbook as it found it, so the requests after it
\* are the requests that could have been made in its place: a behaviour
\* ends with the first failure.
add_transaction ==
    \E form \in Forms, saveOk \in BOOLEAN :
        LET result == add_transaction_result(pathSet, ledger, form, saveOk)
        IN  /\ Len(inserted) < MaxAdds
            /\ addResponse = NoAddResponse \/ addResponse.success
            /\ addForm' = form
            /\ addResponse' = result.response
            /\ ledger' = result.book
            /\ inserted' = IF result.response.success
                           THEN Append(inserted, result.book.rows[2])
                           ELSE inserted
            /\ UNCHANGED <<pathSet, ledger0>>
            /\ UNCHANGED <<recommendVars, recentVars, settingsVars, threadVars>>

LedgerNext == add_transaction

LedgerSpec == LedgerInit /\ [][LedgerNext]_vars

\* Requests for the transactions of a workbook the user supplied: row i
\* of the data rows carries the amount i, and a row has a date or none.
RecentRow(i, dated) ==
    LedgerRow(IF dated THEN "2026-01-02" ELSE "", "huur", "Bij",
              Amount(1000 * i), "")

RecentSheets ==
    {[i \in 1..n |-> RecentRow(i, i \notin undated)] :
        n \in 0..MaxRecentRows,
        undated \in {u \in SUBSET (1..MaxRecentRows) : Cardinality(u) <= MaxUndated}}

RecentBooks ==
    {NoBook, CorruptBook, BookWithoutSheet}
    \cup {BookOf(<<HeaderRow>> \o rows) : rows \in RecentSheets}

RecentInit ==
    /\ RecommendIdle
    /\ ledger \in RecentBooks
    /\ pathSet = TRUE
    /\ addForm = NoForm
    /\ addResponse = NoAddResponse
    /\ ledger0 = ledger
    /\ inserted = <<>>
    /\ columns \in {RequiredColumns - 1, RequiredColumns}
    /\ recent = NotAsked
    /\ allTransactions = NotAsked
    /\ SettingsIdle
    /\ ThreadsIdle

\* GET /get_transactions
get_transactions ==
    /\ ~recent.asked
    /\ recent' = Transactions(get_recent_transactions(ledger, columns, RecentLimit))
    /\ UNCHANGED <<columns, allTransactions>>
    /\ UNCHANGED <<recommendVars, ledgerVars, settingsVars, threadVars>>

\* GET /api/all_transactions
api_all_transactions ==
    /\ ~allTransactions.asked
    /\ allTransactions' = Transactions(get_all_transactions(ledger, columns))
    /\ UNCHANGED <<columns, recent>>
    /\ UNCHANGED <<recommendVars, ledgerVars, settingsVars, threadVars>>

RecentNext == get_transactions \/ api_all_transactions

RecentSpec == RecentInit /\ [][RecentNext]_vars

\* Requests to the settings routes, one after the other.  ok is whether
\* config.json can be written when the request saves the configuration.
SettingsInit ==
    /\ RecommendIdle
    /\ LedgerIdle
    /\ RecentIdle
    /\ running \in {Started(Files(GoodFile, altKas, altNieuw)) :
                      altKas \in {PaddedFile, OtherSheetFile},
                      altNieuw \in {BadFile, AbsentFile}}
    /\ settingsRequest = NoSettingsRequest
    /\ answer = NoAnswer
    /\ requests = 0
    /\ ThreadsIdle

Answered(asked, result) ==
    /\ requests < MaxSettingsRequests
    /\ requests' = requests + 1
    /\ settingsRequest' = asked
    /\ running' = result.app
    /\ answer' = result.answer
    /\ UNCHANGED <<recommendVars, ledgerVars, recentVars, threadVars>>

NameInputs == {BadJson(""), Input(""), Input("nieuw"), Input("kas.xlsx")}

\* POST /settings/excel-file
UpdateExcelFile ==
    \E input \in NameInputs, ok \in BOOLEAN :
        Answered(TextRequest("update_excel_file", input),
                 update_excel_file(running, input, ok))

PathInputs ==
    {BadJson(EmptyPath), Input(EmptyPath), Input(Path("alt", "kas")),
     Input(Path("alt", "KAS.XLSX"))}
    \cup {Input(p) : p \in Paths}

\* POST /settings/excel-file-path
SetExcelFilePath ==
    \E input \in PathInputs, ok \in BOOLEAN :
        Answered(PathRequest("set_excel_file_path", input),
                 set_excel_file_path(running, input, ok))

Uploads ==
    {NoUpload, Upload(TRUE, "", GoodFile),
     Upload(TRUE, "kas", GoodFile), Upload(TRUE, "nieuw.xlsx", GoodFile),
     Upload(TRUE, "nieuw.xlsx", BrokenFile),
     Upload(TRUE, "kas.xlsx", ShortFile),
     Upload(TRUE, "../kas.xlsx", LongFile)}

\* POST /settings/excel-file-upload
UploadExcelFile ==
    \E upload \in Uploads, ok \in BOOLEAN :
        Answered(UploadRequest("upload_excel_file", upload),
                 upload_excel_file(running, upload, ok))

DirectoryInputs == {BadJson(""), Input(""), Input("elders")}

\* POST /settings/backup-directory
SetBackupDirectory ==
    \E input \in DirectoryInputs, ok \in BOOLEAN :
        Answered(TextRequest("set_backup_directory", input),
                 set_backup_directory(running, input, ok))

\* POST /settings/log-directory
SetLogDirectory ==
    \E input \in DirectoryInputs, ok \in BOOLEAN :
        Answered(TextRequest("set_log_directory", input),
                 set_log_directory(running, input, ok))

LevelInputs == {BadJson(""), Input(""), Input("debug"), Input("LUID")}

\* POST /settings/log-level
SetLogLevel ==
    \E input \in LevelInputs, ok \in BOOLEAN :
        Answered(TextRequest("set_log_level", input), set_log_level(running, input, ok))

SheetInputs == {BadJson(""), Input(""), Input("Blad1"), Input("Blad2")}

\* POST /settings/excel-sheet-name
SetExcelSheetName ==
    \E input \in SheetInputs, ok \in BOOLEAN :
        Answered(TextRequest("set_excel_sheet_name", input),
                 set_excel_sheet_name(running, input, ok))

SettingsNext ==
    \/ UpdateExcelFile
    \/ SetExcelFilePath
    \/ UploadExcelFile
    \/ SetBackupDirectory
    \/ SetLogDirectory
    \/ SetLogLevel
    \/ SetExcelSheetName

SettingsSpec == SettingsInit /\ [][SettingsNext]_vars

\* Requests served at the same time.  A step is what a request does
\* between two accesses to the files: the steps of different requests
\* interleave in every order.
ConcReferences ==
    {MissingFile,
     Sheet(<<Row(Text(<<"B", " ", "a">>), Category("Materiaal")),
             Row(Text(<<"a">>), Category("Training"))>>)}

ConcBodies ==
    {Body("value", Text(<<"a">>)), Body("value", Text(<<"b", " ", "a">>))}

\* the form of each add_transaction request
ConcForm(t) ==
    IF t = "a1"
    THEN Form(Field("2026-01-03"), Field("koffie"), Field("Af"), Field("12,50"))
    ELSE Form(Field("2026-01-03"), Field("koffie"), Field("Bij"), Field("0.004"))

ConcBooks ==
    {CorruptBook, BookWithoutSheet,
     BookOf(<<HeaderRow, LedgerRow("2026-01-02", "huur", "Af", Amount(12500), "Vast")>>)}

ConcInit ==
    /\ refFile \in ConcReferences
    /\ request = NoRequest
    /\ response = NoResponse
    /\ ledger \in ConcBooks
    /\ pathSet = TRUE
    /\ addForm = NoForm
    /\ addResponse = NoAddResponse
    /\ ledger0 = ledger
    /\ inserted = <<>>
    /\ RecentIdle
    /\ running = Started(Files(GoodFile, AbsentFile, AbsentFile))
    /\ settingsRequest = NoSettingsRequest
    /\ answer = NoAnswer
    /\ requests = 0
    /\ ThreadsIdle

\* the workbook read as a reference dataset: its rows have no text in
\* columns C and D
as_reference(book) ==
    IF ~book.exists THEN MissingFile
    ELSE IF ~book.loadable THEN CorruptFile
    ELSE Sheet([i \in 1..(Len(book.rows) - 1) |-> Row(NoneValue, NoneCategory)])

reference_source_workbook(reference, book) == as_reference(book)

\* os.path.join('static', 'category_test_set.xlsx'), not EXCEL_FILE_PATH
reference_source(reference, book) == reference

\* request.get_json()
recommend_receive(t) ==
    \E body \in ConcBodies :
        /\ pc[t] = "idle"
        /\ pc' = [pc EXCEPT ![t] = "received"]
        /\ recLocal' = [recLocal EXCEPT ![t].body = body,
                                        ![t].saves = Len(saveOrder)]
        /\ UNCHANGED <<addLocal, saveOrder>>
        /\ UNCHANGED <<recommendVars, ledgerVars, recentVars, settingsVars>>

\* os.path.exists(test_set_path), load_workbook(test_set_path), the
\* matching and the answer
recommend_respond(t) ==
    /\ pc[t] = "received"
    /\ pc' = [pc EXCEPT ![t] = "done"]
    /\ recLocal' = [recLocal EXCEPT
                      ![t].response =
                          handle(recLocal[t].body,
                                 reference_source(refFile, ledger)),
                      ![t].saves = 0,
                      ![t].overlapped = recLocal[t].saves < Len(saveOrder)]
    /\ UNCHANGED <<addLocal, saveOrder>>
    /\ UNCHANGED <<recommendVars, ledgerVars, recentVars, settingsVars>>

\* lines 336-388: the validation and load_workbook(EXCEL_FILE_PATH)
add_load(t) ==
    LET form == ConcForm(t)
        result == add_transaction_result(pathSet, ledger, form, TRUE)
    IN  /\ pc[t] = "idle"
        /\ pc' = [pc EXCEPT ![t] = IF result.response.success
                                   THEN "loaded" ELSE "done"]
        /\ addLocal' = [addLocal EXCEPT
                          ![t] = AddLocal(form, ledger,
                                          IF result.response.success
                                          THEN NoAddResponse
                                          ELSE result.response)]
        /\ UNCHANGED <<recLocal, saveOrder>>
        /\ UNCHANGED <<recommendVars, ledgerVars, recentVars, settingsVars>>

write_source_reloaded(loaded, current) == current

\* the workbook object wb.save() writes is the one the request loaded
write_source(loaded, current) == loaded

\* lines 404-426: the new row in the loaded workbook, and wb.save()
add_save(t) ==
    \E saveOk \in BOOLEAN :
        LET result == add_transaction_result(
                          pathSet, write_source(addLocal[t].loaded, ledger),
                          addLocal[t].form, saveOk)
        IN  /\ pc[t] = "loaded"
            /\ pc' = [pc EXCEPT ![t] = IF saveOk THEN "saved" ELSE "done"]
            /\ ledger' = IF saveOk THEN result.book ELSE ledger
            /\ saveOrder' = IF saveOk THEN Append(saveOrder, t) ELSE saveOrder
            /\ addLocal' = [addLocal EXCEPT
                              ![t].response = IF saveOk THEN NoAddResponse
                                              ELSE result.response]
            /\ UNCHANGED recLocal
            /\ UNCHANGED <<pathSet, addForm, addResponse, ledger0, inserted>>
            /\ UNCHANGED <<recommendVars, recentVars, settingsVars>>

\* lines 435-441: calculate_total_amount() reads the file again
add_respond(t) ==
    /\ pc[t] = "saved"
    /\ pc' = [pc EXCEPT ![t] = "done"]
    /\ addLocal' = [addLocal EXCEPT
                      ![t].response =
                          AddResponse(200, TRUE, calculate_total_amount(ledger))]
    /\ UNCHANGED <<recLocal, saveOrder>>
    /\ UNCHANGED <<recommendVars, ledgerVars, recentVars, settingsVars>>

\* a settings request, between two steps of the others
settings_update ==
    \E input \in {Input("debug")}, ok \in BOOLEAN :
        LET result == set_log_level(running, input, ok)
        IN  /\ requests < MaxConcurrentSettings
            /\ requests' = requests + 1
            /\ settingsRequest' = TextRequest("set_log_level", input)
            /\ running' = result.app
            /\ answer' = result.answer
            /\ UNCHANGED <<recommendVars, ledgerVars, recentVars, threadVars>>

ConcNext ==
    \/ \E t \in RecThreads :
          recommend_receive(t) \/ recommend_respond(t)
    \/ \E t \in AddThreads : add_load(t) \/ add_save(t) \/ add_respond(t)
    \/ settings_update

ConcSpec == ConcInit /\ [][ConcNext]_vars

\* ----------------------------------------------------------------- claims
Called == request # NoRequest
Recs == response.recommendations

\* the trimmed, lower-cased query of the request ('' when there is none)
Query ==
    IF request.kind = "value" THEN Lower(Strip(Str(request.description)))
    ELSE <<>>

\* the request reaches the matching step: a query of 3 characters or more
Searching == Called /\ request.kind = "value" /\ Len(Query) >= 3

\* the well-formed rows of the reference sheet, description lower-cased
ReferenceExamples ==
    {[description |-> Lower(refFile.rows[i][3].v),
      category |-> refFile.rows[i][4].v] :
        i \in {j \in DOMAIN refFile.rows :
                 /\ Len(refFile.rows[j]) >= 4
                 /\ ~refFile.rows[j][3].none
                 /\ ~refFile.rows[j][4].none}}

Shared(text) == Cardinality(Tokens(Query) \cap Tokens(text))
Joint(text) == Cardinality(Tokens(Query) \cup Tokens(text))

\* score = |intersection| / |union| of the query and the text
IsJaccard(score, text) ==
    /\ Tokens(Query) # {}
    /\ Tokens(text) # {}
    /\ score.n * Joint(text) = Shared(text) * score.d

\* score >= the similarity of the query and the text
AtLeastJaccard(score, text) ==
    \/ Tokens(Query) = {}
    \/ Tokens(text) = {}
    \/ score.n * Joint(text) >= Shared(text) * score.d

MatchingExamples ==
    IF Searching THEN {e \in ReferenceExamples : Shared(e.description) > 0}
    ELSE {}
MatchedCategories == {e.category : e \in MatchingExamples}
ReturnedCategories == {Recs[i].category : i \in DOMAIN Recs}

\* C1: the result has at most 5 recommendations and no two of them have the
\* same category.
C1_AtMostFiveDistinct ==
    Called =>
        /\ Len(Recs) <= 5
        /\ \A i, j \in DOMAIN Recs : i < j => Recs[i].category # Recs[j].category

C1_Witness ==
    /\ Called
    /\ Cardinality(MatchingExamples) > 5
    /\ Len(Recs) = 5

\* C2: for every returned category, the score is the maximum similarity of
\* the query and the (lower-cased) reference descriptions of that category,
\* and the example is such a description achieving that maximum.
C2_BestPerCategory ==
    Called =>
        \A i \in DOMAIN Recs :
            LET examples == {e \in ReferenceExamples :
                               e.category = Recs[i].category}
            IN  /\ \E e \in examples :
                      /\ e.description = Recs[i].example
                      /\ IsJaccard(Recs[i].score, e.description)
                /\ \A e \in examples :
                      AtLeastJaccard(Recs[i].score, e.description)

C2_Witness ==
    /\ Called
    /\ \E i \in DOMAIN Recs : \E e \in MatchingExamples :
          /\ e.category = Recs[i].category
          /\ ~IsJaccard(Recs[i].score, e.description)

\* C3: of a query that is searched for, no category with a matching example
\* that is left out of the result scores strictly higher than a returned
\* category, and when fewer than 6 categories match all are returned.
C3_TopFive ==
    Searching =>
        LET matching == MatchingExamples
            matched == {e.category : e \in matching}
            returned == ReturnedCategories
        IN  /\ \A e \in matching :
                  e.category \notin returned =>
                      \A i \in DOMAIN Recs :
                          AtLeastJaccard(Recs[i].score, e.description)
            /\ Cardinality(matched) < 6 => matched \subseteq returned

C3_Witness ==
    /\ Searching
    /\ \E e \in MatchingExamples :
          /\ e.category \notin ReturnedCategories
          /\ \E i \in DOMAIN Recs : ~IsJaccard(Recs[i].score, e.description)

\* C4: the returned scores are non-increasing along the result.
C4_NonIncreasing ==
    Called =>
        \A i, j \in DOMAIN Recs :
            i < j => Recs[i].score.n * Recs[j].score.d
                        >= Recs[j].score.n * Recs[i].score.d

C4_Witness ==
    /\ Called
    /\ \E i, j \in DOMAIN Recs :
          /\ i < j
          /\ Recs[i].score.n * Recs[j].score.d > Recs[j].score.n * Recs[i].score.d

\* C5: every returned score is the Jaccard index of the token sets of the
\* query and of the returned example, neither of them empty, so that
\* 0 < score <= 1.
C5_JaccardScore ==
    Called =>
        \A i \in DOMAIN Recs :
            /\ IsJaccard(Recs[i].score, Recs[i].example)
            /\ Recs[i].score.d > 0
            /\ 0 < Recs[i].score.n
            /\ Recs[i].score.n <= Recs[i].score.d

C5_Witness ==
    /\ Called
    /\ \E i \in DOMAIN Recs :
          /\ Shared(Recs[i].example) < Joint(Recs[i].example)
          /\ Recs[i].score.n < Recs[i].score.d

\* C6: a query whose trimmed, lower-cased form has fewer than 3 characters
\* gets the empty result, and the reference file is not consulted.
C6_ShortQuery ==
    (Called /\ request.kind \in {"value", "nokey", "falsy"} /\ Len(Query) < 3) =>
        /\ Recs = <<>>
        /\ ~response.consulted

C6_Witness ==
    /\ Called
    /\ request.kind = "value"
    /\ ~request.description.none
    /\ Len(request.description.v) >= 3
    /\ Len(Query) \in 1..2
    /\ \E e \in ReferenceExamples : Shared(e.description) > 0
    /\ Recs = <<>>
    /\ ~response.consulted

\* the sheet loads, but reading a row raises IndexError
Unparsable ==
    /\ refFile.kind = "ok"
    /\ \E i \in DOMAIN refFile.rows :
          \/ Len(refFile.rows[i]) < 3
          \/ Len(refFile.rows[i]) < 4 /\ ~refFile.rows[i][3].none

\* C7: every request is answered normally (status 200); with the reference
\* file missing, unreadable or unparsable, or a malformed body, the answer
\* holds the empty list.
C7_NeverRaises ==
    Called =>
        /\ response.status = 200
        /\ (\/ refFile.kind \in {"missing", "corrupt"}
            \/ Unparsable
            \/ request.kind \in {"malformed", "nondict"}) => Recs = <<>>

C7_Witness ==
    /\ Called
    /\ \/ Searching /\ (refFile.kind = "corrupt" \/ Unparsable)
       \/ request.kind = "malformed"
    /\ response.status = 200
    /\ Recs = <<>>

Malformed(row) == Len(row) < 4 \/ row[3].none \/ row[4].none
Without(rows, i) == SubSeq(rows, 1, i - 1) \o SubSeq(rows, i + 1, Len(rows))

\* C8: a row without description or category contributes nothing: the
\* result is the one the sheet without that row gives.
C8_MalformedRowSkipped ==
    (Called /\ refFile.kind = "ok") =>
        \A i \in DOMAIN refFile.rows :
            Malformed(refFile.rows[i]) =>
                /\ Recs = handle(request, Sheet(Without(refFile.rows, i))).recommendations
                /\ response.status = 200

C8_Witness ==
    /\ Called
    /\ refFile.kind = "ok"
    /\ \E i \in DOMAIN refFile.rows : Malformed(refFile.rows[i])
    /\ Recs # <<>>

\* C9: every returned example shares a token with the query, and when no
\* reference description shares one the result is empty.
C9_SharedToken ==
    Called =>
        /\ \A i \in DOMAIN Recs : Shared(Recs[i].example) > 0
        /\ (\A e \in ReferenceExamples : Shared(e.description) = 0) => Recs = <<>>

C9_Witness ==
    /\ Searching
    /\ ReferenceExamples # {}
    /\ \A e \in ReferenceExamples : Shared(e.description) = 0
    /\ Recs = <<>>


\* ------------------------------------------------ claims: add_transaction
DataRows(b) == IF b.hasSheet THEN SubSeq(b.rows, 2, Len(b.rows)) ELSE <<>>
Reverse(seq) == [i \in 1..Len(seq) |-> seq[Len(seq) + 1 - i]]

Blank(field) == ~field.present \/ StripText(field.v) = ""

InvalidForm(form) ==
    \/ Blank(form.datum)
    \/ Blank(form.mededelingen)
    \/ Blank(form.bedrag)
    \/ ParseAmount(form.bedrag.v).raised
    \/ ParseDatum(form.datum.v).raised

\* C14: add_transaction answers 400 and leaves the workbook unchanged for
\* every request in which the date, the description or the amount is
\* missing or blank, the amount is not a number, or the date is not in
\* YYYY-MM-DD form.
C14_InvalidRejected ==
    [][InvalidForm(addForm') =>
          (addResponse'.status = 400 /\ ledger' = ledger)]_vars

\* a request without an amount field, answered with 500
C14_Witness ==
    /\ pathSet /\ ledger.exists
    /\ ~Blank(addForm.datum) /\ ~Blank(addForm.mededelingen)
    /\ ~addForm.bedrag.present
    /\ addResponse.status = 500
    /\ ledger = ledger0

\* the row a valid form describes
RowOf(form) ==
    LedgerRow(form.datum.v, form.mededelingen.v,
              IF form.af_bij.present THEN form.af_bij.v ELSE "",
              Amount(ParseAmount(form.bedrag.v).value), "")

\* C15: a successful add_transaction adds exactly one data row at row 2,
\* keeps row 1 and moves every earlier data row down by one unchanged; so
\* after any sequence of successful requests the data rows are the
\* inserted rows in reverse order of insertion followed by the initial
\* data rows, and their number is the initial number plus the number of
\* successes.
C15_InsertAtRowTwo ==
    [][addResponse'.success =>
          /\ DataRows(ledger') = <<RowOf(addForm')>> \o DataRows(ledger)
          /\ ledger.hasSheet => ledger'.rows[1] = ledger.rows[1]
          /\ DataRows(ledger') = Reverse(inserted') \o DataRows(ledger0)
          /\ Len(DataRows(ledger')) = Len(DataRows(ledger0)) + Len(inserted')
          /\ Len(inserted') = Len(inserted) + 1]_vars

C15_Witness ==
    /\ addResponse.success
    /\ Len(inserted) = 2
    /\ inserted[1] # inserted[2]
    /\ Len(DataRows(ledger0)) = 1
    /\ ledger.rows = <<HeaderRow, inserted[2], inserted[1], ledger0.rows[2]>>

RECURSIVE SumAmounts(_, _)
SumAmounts(rows, mark) ==
    IF rows = <<>> THEN 0
    ELSE (IF Head(rows).af_bij = mark /\ Head(rows).bedrag.num
          THEN Head(rows).bedrag.v ELSE 0) + SumAmounts(Tail(rows), mark)

\* the sum of the amounts marked 'Bij' minus the sum of those marked 'Af',
\* in thousandths; 0 when there is no sheet to read
Balance(b) ==
    IF b.exists /\ b.loadable /\ b.hasSheet
    THEN SumAmounts(DataRows(b), "Bij") - SumAmounts(DataRows(b), "Af")
    ELSE 0

SignedAmount(form) ==
    LET a == ParseAmount(form.bedrag.v).value
    IN  IF form.af_bij = Field("Bij") THEN a
        ELSE IF form.af_bij = Field("Af") THEN 0 - a
        ELSE 0

\* C16 as stated: the total is the sum of the 'Bij' amounts minus the sum
\* of the 'Af' amounts, and the new_total of a successful add_transaction
\* is the total before the request plus or minus its amount.
C16_ExactBalance ==
    [][/\ calculate_total_amount(ledger') = Balance(ledger')
       /\ addResponse'.success =>
             addResponse'.new_total =
                 calculate_total_amount(ledger) + SignedAmount(addForm')]_vars

\* C16: calculate_total_amount returns the sum of the 'Bij' amounts minus
\* the sum of the 'Af' amounts rounded to 2 decimals (0 when the file or
\* the sheet is missing or the file cannot be read), and the new_total of a
\* successful add_transaction is the unrounded sum before the request plus
\* or minus its amount, rounded to 2 decimals.
C16_RoundedBalance ==
    [][/\ calculate_total_amount(ledger') = Round2(Balance(ledger'))
       /\ addResponse'.success =>
             addResponse'.new_total =
                 Round2(Balance(ledger) + SignedAmount(addForm'))]_vars

\* a total that differs from the sum: an amount of 0.004 among the rows
C16_Witness ==
    /\ addResponse.success
    /\ Len(inserted) = 2
    /\ \E i \in 1..2 : inserted[i].bedrag.v = 4 /\ inserted[i].af_bij = "Af"
    /\ \E i \in 1..2 : inserted[i].bedrag.v = 12500
    /\ addResponse.new_total # Balance(ledger)
    /\ addResponse.new_total # 0


\* ------------------------------------------ claims: recent transactions
IsPrefix(short, long) ==
    Len(short) <= Len(long) /\ SubSeq(long, 1, Len(short)) = short

\* the data rows with a date among the given rows: the transactions
Dated(rows) == {i \in 1..Len(rows) : rows[i].datum # ""}

\* the transaction read from a data row
Shown(row) ==
    [datum |-> row.datum, mededelingen |-> row.mededelingen,
     af_bij |-> row.af_bij, bedrag |-> row.bedrag.v, tag |-> row.tag]

Readable == ledger.exists /\ ledger.loadable /\ ledger.hasSheet

ActiveFile(a) == FileAt(a.fs, a.settings.path)
PathSettings(a) == <<a.settings.path, a.settings.name, a.settings.dir>>

\* C13: an upload_excel_file request that is rejected leaves the active
\* workbook file, its contents and the Excel path settings unchanged,
\* whatever the name of the uploaded file.
C13_RejectedUploadChangesNothing ==
    [][(settingsRequest'.handler = "upload_excel_file"
          /\ answer'.status = 400) =>
          /\ FileAt(running'.fs, running.settings.path) = ActiveFile(running)
          /\ PathSettings(running') = PathSettings(running)
          /\ running'.config = running.config
          /\ running'.configFile = running.configFile]_vars

\* a rejected upload under the name of the active workbook, which is gone
C13_Witness ==
    /\ settingsRequest.handler = "upload_excel_file"
    /\ answer.status = 400
    /\ secure_filename(settingsRequest.upload.filename) = running.settings.name
    /\ running.settings.path = StartConfig.excel_file_path
    /\ ActiveFile(running) = AbsentFile

\* C17: a settings request that answers with failure leaves the settings in
\* effect unchanged, and the settings in effect are the settings last
\* persisted to the configuration file.
C17_FailureChangesNothing ==
    [][/\ ~answer'.success => running'.settings = running.settings
       /\ running'.settings = settings_of(running'.configFile)]_vars

\* a request answered with 500 after the setting in effect was changed
C17_Witness ==
    /\ settingsRequest.handler \in {"set_log_level", "update_excel_file",
                                    "set_backup_directory"}
    /\ answer.status = 500
    /\ running.settings # settings_of(running.configFile)
    /\ running.configFile = StartConfig

\* the conditions under which set_excel_file_path accepts a path
Acceptable(input, a) ==
    /\ input.json
    /\ input.v # EmptyPath
    /\ EndsWithXlsx(input.v.name)
    /\ exists(a.fs, input.v)
    /\ validate_excel_headers(FileAt(a.fs, input.v), a.settings.sheet)

PathUnchanged(a, b) ==
    /\ PathSettings(b) = PathSettings(a)
    /\ b.configFile = a.configFile

\* C18 as stated: set_excel_file_path changes the path only when the given
\* path is non-empty, ends in .xlsx, names an existing file and that file
\* has the required headers; in every other case it answers 400 and
\* changes nothing; on success name and directory are those of the path.
C18_RefusedWith400 ==
    [][settingsRequest'.handler = "set_excel_file_path" =>
          LET input == [json |-> settingsRequest'.json,
                        v |-> settingsRequest'.path]
          IN  /\ running'.settings.path # running.settings.path =>
                    Acceptable(input, running)
              /\ ~Acceptable(input, running) =>
                    (answer'.status = 400 /\ PathUnchanged(running, running'))
              /\ answer'.success =>
                    /\ running'.settings.path = input.v
                    /\ running'.settings.name = basename(input.v)
                    /\ running'.settings.dir = dirname(input.v)]_vars

\* C18: the same, except that a request whose body is not a JSON object is
\* answered with 500; it changes nothing either.
C18_Refused ==
    [][settingsRequest'.handler = "set_excel_file_path" =>
          LET input == [json |-> settingsRequest'.json,
                        v |-> settingsRequest'.path]
          IN  /\ running'.settings.path # running.settings.path =>
                    Acceptable(input, running)
              /\ ~Acceptable(input, running) =>
                    /\ answer'.status = IF input.json THEN 400 ELSE 500
                    /\ PathUnchanged(running, running')
              /\ answer'.success =>
                    /\ running'.settings.path = input.v
                    /\ running'.settings.name = basename(input.v)
                    /\ running'.settings.dir = dirname(input.v)]_vars

\* a path accepted on the headers of the active sheet, then a body that
\* is not JSON refused with 500
C18_Witness ==
    /\ settingsRequest.handler = "set_excel_file_path"
    /\ ~settingsRequest.json
    /\ answer.status = 500
    /\ requests = 2
    /\ running.settings.path = Path("alt", "kas.xlsx")
    /\ running.settings.dir = "alt"
    /\ running.configFile.excel_file_path = Path("alt", "kas.xlsx")
    /\ ~ActiveFile(running).sheets[running.settings.sheet].present


\* --------------------------------------------- claims: concurrent requests
\* C11: under any interleaving with other requests (recommend_category,
\* add_transaction, settings updates) a recommend_category request returns
\* what it returns when run alone on its query and the reference dataset,
\* and its steps change neither the workbook, the settings nor the
\* reference dataset.
C11_IndependentOfOthers ==
    [][\A t \in RecThreads :
          /\ pc'[t] = "done" =>
                recLocal'[t].response = handle(recLocal'[t].body, refFile)
          /\ pc'[t] # pc[t] =>
                (ledger' = ledger /\ running' = running /\ refFile' = refFile)]_vars

\* a request that found recommendations while a transaction was saved and
\* the other requests were under way
C11_Witness ==
    /\ pc["r1"] = "done"
    /\ recLocal["r1"].overlapped
    /\ recLocal["r1"].response.recommendations # <<>>
    /\ pc["r2"] = "received"
    /\ pc["a2"] = "loaded"
    /\ ledger # ledger0
    /\ requests = 1

Last(seq) == seq[Len(seq)]

\* the file a request writes: the workbook it loaded, with its row at row 2
WrittenBy(t) ==
    LET loaded == addLocal[t].loaded
    IN  BookOf(<<IF loaded.hasSheet THEN loaded.rows[1] ELSE EmptyRow,
                 RowOf(addLocal[t].form)>> \o DataRows(loaded))

\* C12: when add_transaction requests overlap, the file holds exactly what
\* the request that saved last wrote: the workbook that request loaded,
\* with its own row.
C12_LastWriterWins ==
    saveOrder # <<>> => ledger = WrittenBy(Last(saveOrder))

\* a lost update: both requests saved, and the row of the first is gone
C12_Witness ==
    /\ pc["a1"] = "done" /\ pc["a2"] = "done"
    /\ saveOrder = <<"a1", "a2">>
    /\ addLocal["a1"].response.success /\ addLocal["a2"].response.success
    /\ Len(DataRows(ledger)) = Len(DataRows(ledger0)) + 1
    /\ ledger.rows[2] = RowOf(ConcForm("a2"))

====
